---- MODULE Spec2Model ----
(***************************************************************************)
(* Model of app.py, the Streamlit "Question Paper Pattern Predictor":      *)
(* the question segmenter (split_into_questions), the repeat detector and  *)
(* the script's control flow (API key check, uploads, the two buttons).    *)
(* A text is a sequence of one-character strings.                          *)
(***************************************************************************)
EXTENDS Integers, Sequences, FiniteSets, TLC

VARIABLES
    pc,                 \* "start" | "stopped" (st.stop) | "idle" (script run over)
    OPENAI_API_KEY,     \* os.getenv("OPENAI_API_KEY"): "" when absent
    widgets,            \* TRUE once the two st.file_uploader widgets exist
    question_papers,    \* uploaded question papers: sequence of PDFs
    syllabus_file,      \* uploaded syllabus: <<>> (None) or <<pdf>>
    clicked,            \* which button drove the last script run
    all_questions,      \* local of the question paper handler
    counts,             \* Counter(normalized): <<key, count>> in first-seen order
    repeated,           \* [(q, c) for q, c in counts.items() if c > 1]
    repeated_readable,  \* [(orig, c)]
    defined,            \* names bound by the last script run
    exception,          \* "" or the exception that ended the last script run
    screen,             \* what the last script run rendered, in order
    llm_calls,          \* prompts sent to call_llm by the last script run
    text,               \* argument of a direct split_into_questions call
    parts,              \* re.split result of that call
    questions           \* return value of that call

vars == <<pc, OPENAI_API_KEY, widgets, question_papers, syllabus_file, clicked,
          all_questions, counts, repeated, repeated_readable, defined,
          exception, screen, llm_calls, text, parts, questions>>

appVars == <<pc, OPENAI_API_KEY, widgets, question_papers, syllabus_file, clicked,
             all_questions, counts, repeated, repeated_readable, defined,
             exception, screen, llm_calls>>

splitVars == <<text, parts, questions>>

----------------------------------------------------------------------------
(* Characters *)

Whitespace == {" ", "\n", "\r"}          \* what \s and str.strip() treat as space
Digits     == {"1", "2"}                 \* \d
Delims     == {")", ".", "]"}            \* [\).\]]
LowerOf    == [c \in {"A", "B", "C"} |-> CASE c = "A" -> "a" [] c = "B" -> "b" [] c = "C" -> "c"]

\* the literal in "len(q_clean) > 15"
ShortLimit == 15
\* the literal in "all_questions[:50]"
PromptLimit == 50

Min(a, b) == IF a < b THEN a ELSE b

\* n copies of the character c
Rep(c, n) == [i \in 1..n |-> c]

RECURSIVE Concat(_)
Concat(ss) == IF ss = <<>> THEN <<>> ELSE Head(ss) \o Concat(Tail(ss))

----------------------------------------------------------------------------
(* str methods *)

\* str.lower(), character by character
lower(s) == [i \in 1..Len(s) |-> IF s[i] \in DOMAIN LowerOf THEN LowerOf[s[i]] ELSE s[i]]

\* first index >= i whose character is outside class (Len(s)+1 when none)
SkipWhile(s, i, class) ==
    IF i > Len(s) THEN i
    ELSE CHOOSE j \in i..Len(s) + 1 :
            /\ j = Len(s) + 1 \/ s[j] \notin class
            /\ \A k \in i..j - 1 : s[k] \in class

\* last index <= j whose character is outside class (0 when none)
SkipBack(s, j, class) ==
    IF j < 1 THEN j
    ELSE CHOOSE i \in 0..j :
            /\ i = 0 \/ s[i] \notin class
            /\ \A k \in i + 1..j : s[k] \in class

\* str.strip(): drop leading and trailing whitespace
strip(s) ==
    LET a == SkipWhile(s, 1, Whitespace)
        b == SkipBack(s, Len(s), Whitespace)
    IN  IF a > b THEN <<>> ELSE SubSeq(s, a, b)

NotCR(c) == c # "\r"

\* re.sub(r'\r', '', text)
RemoveCR(s) == SelectSeq(s, NotCR)

----------------------------------------------------------------------------
(* The regular expression  \n?\s*\d+[\).\]]\s+  *)

\* End (exclusive) of the match that starts at index i, or 0 when the pattern
\* does not match there.  Every quantifier is greedy; giving characters back
\* never helps, because the atom that follows each run (a digit after the
\* whitespace, a delimiter after the digits) is outside the run's class.
MatchEnd(s, i) ==
    IF i > Len(s) \/ s[i] \notin Whitespace \cup Digits
    THEN 0                              \* a match begins with a blank or a digit
    ELSE LET n == IF s[i] = "\n" THEN i + 1 ELSE i              \* \n?
             w == SkipWhile(s, n, Whitespace)                   \* \s*
             d == SkipWhile(s, w, Digits)                       \* \d+
             e == SkipWhile(s, d + 1, Whitespace)               \* \s+
         IN  IF d > w /\ d <= Len(s) /\ s[d] \in Delims /\ e > d + 1 THEN e ELSE 0

\* leftmost index in lo..hi at which the pattern matches, or 0; the range is
\* halved so that the left part is always tried first
RECURSIVE FirstMatchIn(_, _, _)
FirstMatchIn(s, lo, hi) ==
    IF lo > hi THEN 0
    ELSE IF lo = hi THEN (IF MatchEnd(s, lo) # 0 THEN lo ELSE 0)
    ELSE LET mid  == (lo + hi) \div 2
             left == FirstMatchIn(s, lo, mid)
         IN  IF left # 0 THEN left ELSE FirstMatchIn(s, mid + 1, hi)

\* re.search from pos: start of the leftmost match, or 0 when there is none
SearchFrom(s, pos) == FirstMatchIn(s, pos, Len(s))

\* the successive matches <<start, end>> that re.split cuts at
RECURSIVE Matches(_, _)
Matches(s, pos) ==
    LET m == SearchFrom(s, pos)
    IN  IF m = 0 THEN <<>>
        ELSE <<(<<m, MatchEnd(s, m)>>)>> \o Matches(s, MatchEnd(s, m))

\* re.split(pattern, text): the pieces between successive matches
RECURSIVE ReSplit(_, _)
ReSplit(s, pos) ==
    LET m == SearchFrom(s, pos)
    IN  IF m = 0 THEN <<SubSeq(s, pos, Len(s))>>
        ELSE <<SubSeq(s, pos, m - 1)>> \o ReSplit(s, MatchEnd(s, m))

re_split(s) == ReSplit(s, 1)

\* variant: the length test written with >= (C4)
LongEnough_AtLeast(q_clean) == Len(q_clean) >= ShortLimit

\* "if len(q_clean) > 15"
LongEnough(q_clean) == Len(q_clean) > ShortLimit

\* the loop "for q in parts[1:]": keep the stripped pieces longer than 15
KeepLong(ps) == SelectSeq([k \in 1..Len(ps) |-> strip(ps[k])], LongEnough)

\* variant: the piece in front of the first marker is not skipped (C3)
split_KeepsHeader(t) == KeepLong(re_split(RemoveCR(t)))

\* split_into_questions(text)
split_into_questions(t) == KeepLong(Tail(re_split(RemoveCR(t))))

----------------------------------------------------------------------------
(* PDF text extraction: a PDF is the sequence of its pages' texts *)

\* extract_text_from_pdf: pages without text are skipped, the others are
\* joined with a line break after each
RECURSIVE extract_text_from_pdf(_)
extract_text_from_pdf(pdf) ==
    IF pdf = <<>> THEN <<>>
    ELSE (IF Head(pdf) # <<>> THEN Head(pdf) \o <<"\n">> ELSE <<>>)
         \o extract_text_from_pdf(Tail(pdf))

----------------------------------------------------------------------------
(* The repeat detector *)

\* variant: normalization that forgets lower() (C2)
normalize_NoLower(q) == strip(q)

\* q.lower().strip()
normalize(q) == strip(lower(q))

\* variant: a key seen again is not counted again (C1)
CounterAdd_NoBump(acc, k) ==
    IF \E i \in 1..Len(acc) : acc[i][1] = k THEN acc ELSE Append(acc, <<k, 1>>)

\* one Counter update: bump the key's count, or add the key at the end
CounterAdd(acc, k) ==
    IF \E i \in 1..Len(acc) : acc[i][1] = k
    THEN [i \in 1..Len(acc) |-> IF acc[i][1] = k THEN <<k, acc[i][2] + 1>> ELSE acc[i]]
    ELSE Append(acc, <<k, 1>>)

\* Counter(normalized), as counts.items() lists it (first-seen order)
RECURSIVE CounterOf(_, _)
CounterOf(ns, acc) ==
    IF ns = <<>> THEN acc ELSE CounterOf(Tail(ns), CounterAdd(acc, Head(ns)))

IsRepeated(e) == e[2] > 1

\* [(q, c) for q, c in counts.items() if c > 1]
RepeatedOf(cnt) == SelectSeq(cnt, IsRepeated)

\* variant: the last matching question instead of the first (C9)
RECURSIVE LastIndex(_, _, _)
LastIndex(qs, q_norm, i) ==
    IF i > Len(qs) THEN 0
    ELSE IF LastIndex(qs, q_norm, i + 1) # 0 THEN LastIndex(qs, q_norm, i + 1)
    ELSE IF normalize(qs[i]) = q_norm THEN i
    ELSE 0

\* index of the first question whose normalization is q_norm (0: none, the
\* case in which next() raises StopIteration)
RECURSIVE FirstIndex(_, _, _)
FirstIndex(qs, q_norm, i) ==
    IF i > Len(qs) THEN 0
    ELSE IF normalize(qs[i]) = q_norm THEN i
    ELSE FirstIndex(qs, q_norm, i + 1)

\* next(q for q in all_questions if q.lower().strip() == q_norm)
FirstOriginal(qs, q_norm) == qs[FirstIndex(qs, q_norm, 1)]

\* the loop that builds repeated_readable
ReadableOf(qs, rep) == [k \in 1..Len(rep) |-> <<FirstOriginal(qs, rep[k][1]), rep[k][2]>>]

\* stable insertion of e into a list ordered by descending count
RECURSIVE InsertDesc(_, _)
InsertDesc(srt, e) ==
    IF srt = <<>> THEN <<e>>
    ELSE IF Head(srt)[2] >= e[2] THEN <<Head(srt)>> \o InsertDesc(Tail(srt), e)
    ELSE <<e>> \o srt

RECURSIVE SortFrom(_, _)
SortFrom(rest, srt) ==
    IF rest = <<>> THEN srt ELSE SortFrom(Tail(rest), InsertDesc(srt, Head(rest)))

\* variant: the list is shown as built, without sorting (C5)
shown_unsorted(rr) == rr

\* sorted(repeated_readable, key=lambda x: x[1], reverse=True)
sorted_by_count_desc(rr) == SortFrom(rr, <<>>)

----------------------------------------------------------------------------
(* One run of the script *)

Item(kind, q, c) == [kind |-> kind, q |-> q, c |-> c]
Msg(kind) == Item(kind, <<>>, 0)

\* variant: a paper's questions are put in front of the earlier ones (C10)
extend_InFront(acc, qs) == qs \o acc

\* all_questions.extend(questions)
extend(acc, qs) == acc \o qs

\* the loop "for qp in question_papers", started from all_questions = []
RECURSIVE Accumulate(_, _)
Accumulate(papers, acc) ==
    IF papers = <<>> THEN acc
    ELSE Accumulate(Tail(papers),
                    extend(acc, split_into_questions(extract_text_from_pdf(Head(papers)))))

\* "if not all_questions": the branch that reports the missing questions
NoQuestions(aq) == aq = <<>>

\* variant: the output block is not guarded (C6)
OutputGuard_Always(aq) == TRUE

\* "if all_questions:" in front of the output
OutputGuard(aq) == aq # <<>>

\* the locals, the exception, the output and the LLM calls of one run
Result(aq, cnt, rep, rr, bound, exc, scr, calls) ==
    [ all_questions     |-> aq,
      counts            |-> cnt,
      repeated          |-> rep,
      repeated_readable |-> rr,
      defined           |-> bound,
      exception         |-> exc,
      screen            |-> scr,
      llm_calls         |-> calls ]

\* the prompt of the question paper analysis: at most the first 50 questions
PatternPrompt(aq) ==
    [kind |-> "pattern", body |-> SubSeq(aq, 1, Min(PromptLimit, Len(aq)))]

RepeatItems(srt) == [k \in 1..Len(srt) |-> Item("repeat", srt[k][1], srt[k][2])]

\* the output block: total, repeated questions, then the call of call_llm
\* (llm_ok: the call returns; otherwise its exception ends the run)
Output(aq, cnt, rep, rr, bound, scr, llm_ok) ==
    IF ~OutputGuard(aq)
    THEN Result(aq, cnt, rep, rr, bound, "", scr, <<>>)
    ELSE IF "repeated_readable" \notin bound
    THEN Result(aq, cnt, rep, rr, bound, "NameError",
                scr \o <<Msg("subheader_total"), Item("write_total", <<>>, Len(aq))>>,
                <<>>)
    ELSE Result(aq, cnt, rep, rr, bound,
                IF llm_ok THEN "" ELSE "ServiceError",
                scr \o <<Msg("subheader_total"), Item("write_total", <<>>, Len(aq))>>
                    \o (IF rr # <<>>
                        THEN <<Msg("subheader_repeated")>>
                             \o RepeatItems(sorted_by_count_desc(rr))
                        ELSE <<Msg("info_no_repeats")>>)
                    \o (IF llm_ok
                        THEN <<Msg("subheader_insights"), Msg("write_insights")>>
                        ELSE <<>>),
                <<PatternPrompt(aq)>>)

\* the loop over repeated: an original is found for every group, or next()
\* raises StopIteration
MapBack(aq, cnt, rep, scr, llm_ok) ==
    IF \E k \in 1..Len(rep) : FirstIndex(aq, rep[k][1], 1) = 0
    THEN Result(aq, cnt, rep, <<>>,
                {"all_questions", "normalized", "counts", "repeated"},
                "StopIteration", scr, <<>>)
    ELSE Output(aq, cnt, rep, ReadableOf(aq, rep),
                {"all_questions", "normalized", "counts", "repeated", "repeated_readable"},
                scr, llm_ok)

Counted(aq, cnt, scr, llm_ok) == MapBack(aq, cnt, RepeatedOf(cnt), scr, llm_ok)

\* the branch on the collected questions
Branch(aq, scr, llm_ok) ==
    IF NoQuestions(aq)
    THEN Output(aq, <<>>, <<>>, <<>>, {"all_questions"},
                scr \o <<Msg("error_no_questions")>>, llm_ok)
    ELSE Counted(aq, CounterOf([i \in 1..Len(aq) |-> normalize(aq[i])], <<>>),
                 scr, llm_ok)

\* body of "if st.button(Analyze Question Papers)", scr being the output so far
AnalyzePapers(qp, scr, llm_ok) == Branch(Accumulate(qp, <<>>), scr, llm_ok)

NoLocals == Result(<<>>, <<>>, <<>>, <<>>, {}, "", <<>>, <<>>)

\* body of "if st.button(Analyze Syllabus)"
AnalyzeSyllabusRun(syl, scr, llm_ok) ==
    Result(<<>>, <<>>, <<>>, <<>>, {"syllabus_text", "syllabus_prompt"},
           IF llm_ok THEN "" ELSE "ServiceError",
           scr \o (IF llm_ok
                   THEN <<Msg("subheader_syllabus"), Msg("markdown_syllabus")>>
                   ELSE <<>>),
           <<[kind |-> "syllabus", body |-> <<extract_text_from_pdf(syl[1])>>]>>)

\* "if syllabus_file:" and its button
SyllabusSection(syl, button, llm_ok) ==
    IF syl = <<>> THEN NoLocals
    ELSE IF button = "syllabus"
    THEN AnalyzeSyllabusRun(syl, <<Msg("success_syllabus")>>, llm_ok)
    ELSE [NoLocals EXCEPT !.screen = <<Msg("success_syllabus")>>]

\* the closing tip, or the exception that ended the run
Closing(syl, qp, r) ==
    [ r EXCEPT !.screen =
        @ \o (IF r.exception # "" THEN <<Msg("exception")>>
              ELSE IF syl # <<>> /\ qp # <<>> THEN <<Msg("tip")>>
              ELSE <<>>) ]

\* "if question_papers:" and its button, after a syllabus section that left sy
PapersSection(qp, syl, button, llm_ok, sy) ==
    IF sy.exception # "" \/ qp = <<>>
    THEN Closing(syl, qp, sy)
    ELSE IF button = "papers"
    THEN Closing(syl, qp,
                 AnalyzePapers(qp, sy.screen \o <<Item("success_papers", <<>>, Len(qp))>>,
                               llm_ok))
    ELSE Closing(syl, qp,
                 [sy EXCEPT !.screen = @ \o <<Item("success_papers", <<>>, Len(qp))>>])

\* the script from the uploaders on, for the given uploads and clicked button
\* ("none", "syllabus" or "papers"); an exception ends the run where it is raised
ScriptRun(qp, syl, button, llm_ok) ==
    PapersSection(qp, syl, button, llm_ok, SyllabusSection(syl, button, llm_ok))

----------------------------------------------------------------------------
(* Bounded uploads *)

\* most question papers in one upload
MaxPapers == 2
\* most pages in one PDF
MaxPages == 1

PageImage == <<>>                                   \* scanned page: no text
\* a header, then three questions
PageX == <<"b", "\n", "1", ".", " ">> \o Rep("c", ShortLimit + 1)
         \o <<"\n", "2", ")", " ">> \o Rep("b", ShortLimit + 1)
         \o <<" ", "\n", "1", "2", "]", " ">> \o Rep("A", ShortLimit + 1)
\* three questions and a piece of 15 characters
PageY == <<"1", "]", " ">> \o Rep("B", ShortLimit + 1)
         \o <<"\n", "2", ".", " ">> \o Rep("a", ShortLimit + 1)
         \o <<" ", "\n", "1", "2", ".", " ">> \o Rep("C", ShortLimit)
         \o <<"\n", "1", ")", " ">> \o Rep("A", ShortLimit + 1)
Pages == {PageImage, PageX, PageY}

Pdfs == UNION { [1..n -> Pages] : n \in 0..MaxPages }
SyllabusPdf == <<PageY>>

----------------------------------------------------------------------------
(* The application *)

Init ==
    /\ pc = "start"
    /\ OPENAI_API_KEY \in {"", "sk-test"}
    /\ widgets = FALSE
    /\ question_papers = <<>>
    /\ syllabus_file = <<>>
    /\ clicked = "none"
    /\ all_questions = <<>>
    /\ counts = <<>>
    /\ repeated = <<>>
    /\ repeated_readable = <<>>
    /\ defined = {}
    /\ exception = ""
    /\ screen = <<>>
    /\ llm_calls = <<>>
    /\ text = <<>>
    /\ parts = <<>>
    /\ questions = <<>>

\* variant: the run goes on after the error, st.stop() missing (C7)
StopPc_GoesOn == "idle"

\* what st.stop() leaves of the first run
StopPc == "stopped"

\* first run of the script: the key check, then the uploaders with nothing
\* uploaded yet
Startup ==
    /\ pc = "start"
    /\ IF OPENAI_API_KEY = ""
       THEN /\ screen' = <<Msg("error_no_key")>>
            /\ pc' = StopPc
            /\ widgets' = (StopPc # "stopped")
       ELSE /\ screen' = <<>>
            /\ pc' = "idle"
            /\ widgets' = TRUE
    /\ UNCHANGED <<OPENAI_API_KEY, question_papers, syllabus_file, clicked,
                   all_questions, counts, repeated, repeated_readable, defined,
                   exception, llm_calls, splitVars>>

\* the state a script run r leaves
Commit(qp, syl, button, r) ==
    /\ question_papers' = qp
    /\ syllabus_file' = syl
    /\ clicked' = button
    /\ all_questions' = r.all_questions
    /\ counts' = r.counts
    /\ repeated' = r.repeated
    /\ repeated_readable' = r.repeated_readable
    /\ defined' = r.defined
    /\ exception' = r.exception
    /\ screen' = r.screen
    /\ llm_calls' = r.llm_calls
    /\ UNCHANGED <<pc, OPENAI_API_KEY, widgets, splitVars>>

\* a rerun of the script with the given uploads and button
Rerun(qp, syl, button, llm_ok) ==
    /\ pc = "idle"
    /\ widgets
    /\ Commit(qp, syl, button, ScriptRun(qp, syl, button, llm_ok))

\* the user adds a question paper to the uploader
AddPaper ==
    /\ Len(question_papers) < MaxPapers
    /\ \E pdf \in Pdfs : Rerun(Append(question_papers, pdf), syllabus_file, "none", TRUE)

\* the list without its i-th element
Without(seq, i) == SubSeq(seq, 1, i - 1) \o SubSeq(seq, i + 1, Len(seq))

\* the user removes a question paper from the uploader
RemovePaper ==
    /\ widgets
    /\ \E i \in 1..Len(question_papers) :
          Rerun(Without(question_papers, i), syllabus_file, "none", TRUE)

\* the user uploads or removes the syllabus
UploadSyllabus ==
    /\ widgets
    /\ \E syl \in {<<>>, <<SyllabusPdf>>} : Rerun(question_papers, syl, "none", TRUE)

\* the user presses "Analyze Syllabus" (the button exists only with a syllabus)
AnalyzeSyllabus ==
    /\ syllabus_file # <<>>
    /\ \E llm_ok \in BOOLEAN : Rerun(question_papers, syllabus_file, "syllabus", llm_ok)

\* the user presses "Analyze Question Papers" (the button exists only with papers)
AnalyzeQuestionPapers ==
    /\ question_papers # <<>>
    /\ \E llm_ok \in BOOLEAN : Rerun(question_papers, syllabus_file, "papers", llm_ok)

Next ==
    \/ Startup
    \/ AddPaper
    \/ RemovePaper
    \/ UploadSyllabus
    \/ AnalyzeSyllabus
    \/ AnalyzeQuestionPapers

Spec == Init /\ [][Next]_vars

----------------------------------------------------------------------------
(* Properties of the application (checked under Spec) *)

\* the last script run executed the question paper analysis
analysed == pc = "idle" /\ clicked = "papers"

KindsOn(scr) == {scr[k].kind : k \in 1..Len(scr)}

IsTotal(it) == it.kind = "write_total"
IsRepeat(it) == it.kind = "repeat"

RECURSIVE SumCounts(_)
SumCounts(cnt) == IF cnt = <<>> THEN 0 ELSE Head(cnt)[2] + SumCounts(Tail(cnt))

\* C1: the counts of all normalized groups add up to the number of collected
\* questions, and the total written to the page is that number.
C1_CountsAddUp ==
    analysed =>
        /\ SumCounts(counts) = Len(all_questions)
        /\ \A k \in 1..Len(screen) :
              IsTotal(screen[k]) => screen[k].c = Len(all_questions)
        /\ all_questions # <<>> => Len(SelectSeq(screen, IsTotal)) = 1

C1_Witness ==
    /\ analysed
    /\ \E k \in 1..Len(counts) : counts[k][2] = 1
    /\ \E k \in 1..Len(counts) : counts[k][2] = 2
    /\ \E k \in 1..Len(counts) : counts[k][2] > 2
    /\ \E k \in 1..Len(screen) : IsTotal(screen[k]) /\ screen[k].c > Len(counts)

\* the two characters are the same letter in either case
SameLetter(c, d) ==
    \/ c = d
    \/ c \in DOMAIN LowerOf /\ LowerOf[c] = d
    \/ d \in DOMAIN LowerOf /\ LowerOf[d] = c
    \/ c \in DOMAIN LowerOf /\ d \in DOMAIN LowerOf /\ LowerOf[c] = LowerOf[d]

\* A and B differ at most in letter case and in surrounding whitespace
SameUpToCaseAndBlanks(A, B) ==
    LET a == strip(A)
        b == strip(B)
    IN  /\ Len(a) = Len(b)
        /\ \A i \in 1..Len(a) : SameLetter(a[i], b[i])

\* C2: questions that differ only in letter case or surrounding whitespace
\* are counted in one group: exactly one group stands for them, and its count
\* is the number of such questions.
C2_CaseVariantsShareGroup ==
    analysed =>
        \A i \in 1..Len(all_questions) :
            LET like == {j \in 1..Len(all_questions) :
                            SameUpToCaseAndBlanks(all_questions[i], all_questions[j])}
                grp  == {k \in 1..Len(counts) :
                            SameUpToCaseAndBlanks(counts[k][1], all_questions[i])}
            IN  /\ Cardinality(grp) = 1
                /\ \A k \in grp : counts[k][2] = Cardinality(like)

C2_Witness ==
    /\ analysed
    /\ \E i, j \in 1..Len(all_questions) :
          /\ all_questions[i] # all_questions[j]
          /\ SameUpToCaseAndBlanks(all_questions[i], all_questions[j])
          /\ \E k \in 1..Len(counts) :
                /\ counts[k][1] = normalize(all_questions[i])
                /\ counts[k][1] = normalize(all_questions[j])
                /\ counts[k][2] >= 2

\* the "repeat" lines of the page, in the order shown
Shown == SelectSeq(screen, IsRepeat)

\* C5: the repeated questions are shown by descending count, and each shown
\* entry is a group counted at least twice.
C5_ShownSortedAndRepeated ==
    /\ \A k \in 1..Len(Shown) :
          /\ Shown[k].c >= 2
          /\ \E g \in 1..Len(counts) :
                counts[g][1] = normalize(Shown[k].q) /\ counts[g][2] = Shown[k].c
    /\ \A k \in 1..Len(Shown) - 1 : Shown[k].c >= Shown[k + 1].c
    /\ \A g \in 1..Len(counts) :
          counts[g][2] <= 1 => \A k \in 1..Len(Shown) : normalize(Shown[k].q) # counts[g][1]

\* two groups are shown, the one found first in the papers having the smaller
\* count, and a group counted once is left out
C5_Witness ==
    /\ analysed
    /\ Len(Shown) = 2
    /\ Shown[1].c > Shown[2].c
    /\ repeated_readable[1][2] < repeated_readable[2][2]
    /\ \E g \in 1..Len(counts) : counts[g][2] = 1

OutputKinds ==
    {"subheader_total", "write_total", "subheader_repeated", "repeat",
     "info_no_repeats", "subheader_insights", "write_insights"}

\* C6: when no paper yields a question, the run reports the error and does
\* nothing else: no counting, no output, no LLM call, no exception.
C6_NoQuestionsStopsRun ==
    (analysed /\ all_questions = <<>>) =>
        /\ "error_no_questions" \in KindsOn(screen)
        /\ KindsOn(screen) \cap OutputKinds = {}
        /\ "exception" \notin KindsOn(screen)
        /\ exception = ""
        /\ llm_calls = <<>>
        /\ defined = {"all_questions"}
        /\ counts = <<>> /\ repeated = <<>> /\ repeated_readable = <<>>

C6_Witness ==
    /\ analysed
    /\ all_questions = <<>>
    /\ Len(question_papers) = 2
    /\ "error_no_questions" \in KindsOn(screen)

\* C7: without the API key the first run shows the error and stops: no
\* uploader exists, nothing is uploaded or analysed, no LLM call is made.
C7_NoKeyHalts ==
    OPENAI_API_KEY = "" =>
        /\ pc \in {"start", "stopped"}
        /\ widgets = FALSE
        /\ question_papers = <<>> /\ syllabus_file = <<>>
        /\ clicked = "none"
        /\ llm_calls = <<>>
        /\ pc = "stopped" => screen = <<Msg("error_no_key")>>
        /\ ~ENABLED AddPaper /\ ~ENABLED RemovePaper /\ ~ENABLED UploadSyllabus
        /\ ~ENABLED AnalyzeSyllabus /\ ~ENABLED AnalyzeQuestionPapers

C7_Witness == pc = "stopped" /\ OPENAI_API_KEY = "" /\ screen = <<Msg("error_no_key")>>

\* C9: the text shown for a repeated group is the first collected question
\* whose lowercased, trimmed form is the group's key, and one always exists.
C9_RepresentativeIsFirstOriginal ==
    analysed =>
        /\ exception # "StopIteration"
        /\ Len(repeated_readable) = Len(repeated)
        /\ \A k \in 1..Len(repeated) :
              \E i \in 1..Len(all_questions) :
                  /\ repeated_readable[k][1] = all_questions[i]
                  /\ strip(lower(all_questions[i])) = repeated[k][1]
                  /\ \A j \in 1..i - 1 : strip(lower(all_questions[j])) # repeated[k][1]
        /\ \A n \in 1..Len(Shown) :
              \E k \in 1..Len(repeated_readable) :
                  Shown[n].q = repeated_readable[k][1] /\ Shown[n].c = repeated_readable[k][2]

\* a shown text that is not its own normalized form, with a later question of
\* the same group spelled differently
C9_Witness ==
    /\ analysed
    /\ \E n \in 1..Len(Shown) :
          /\ Shown[n].q # normalize(Shown[n].q)
          /\ \E i, j \in 1..Len(all_questions) :
                /\ i < j
                /\ all_questions[i] = Shown[n].q
                /\ all_questions[j] # Shown[n].q
                /\ normalize(all_questions[j]) = normalize(Shown[n].q)

\* the questions of each paper, paper by paper
QuestionsPerPaper ==
    [i \in 1..Len(question_papers) |->
        split_into_questions(extract_text_from_pdf(question_papers[i]))]

\* C10: the collected questions are the papers' questions in upload order,
\* each paper's questions together and in document order, and nothing else.
C10_UploadOrderKept ==
    analysed => all_questions = Concat(QuestionsPerPaper)

C10_Witness ==
    /\ analysed
    /\ Len(question_papers) = 2
    /\ Len(QuestionsPerPaper[1]) >= 2
    /\ QuestionsPerPaper[2] # <<>>
    /\ QuestionsPerPaper[1] \o QuestionsPerPaper[2] # QuestionsPerPaper[2] \o QuestionsPerPaper[1]
    /\ all_questions = QuestionsPerPaper[1] \o QuestionsPerPaper[2]

----------------------------------------------------------------------------
(* Direct calls of split_into_questions on bounded texts *)

\* longest text, counted in fragments
MaxFragments == 4

\* the fragments texts are assembled from
Fragments ==
    { <<"\n">>,                       \* line break
      <<" ">>,                        \* blank
      <<"\r">>,                       \* carriage return
      <<"1", "2", ".", " ">>,         \* digits, delimiter, whitespace
      <<"2", ")", "\n">>,
      <<"]", " ">>,                   \* delimiter, whitespace
      <<"1", ".", "2">>,              \* "1.2": no whitespace after the delimiter
      Rep("a", ShortLimit + 1),       \* body that is long enough
      Rep("A", ShortLimit) \o <<" ">>, \* body of exactly 15 characters, then a blank
      <<"b">> }

FragmentSeqs == UNION { [1..n -> Fragments] : n \in 0..MaxFragments }

InitSplit ==
    /\ pc = "start"
    /\ OPENAI_API_KEY = ""
    /\ widgets = FALSE
    /\ question_papers = <<>>
    /\ syllabus_file = <<>>
    /\ clicked = "none"
    /\ all_questions = <<>>
    /\ counts = <<>>
    /\ repeated = <<>>
    /\ repeated_readable = <<>>
    /\ defined = {}
    /\ exception = ""
    /\ screen = <<>>
    /\ llm_calls = <<>>
    /\ \E fs \in FragmentSeqs : text = Concat(fs)
    /\ parts = <<>>
    /\ questions = <<"not called">>

\* questions = split_into_questions(text)
CallSplit ==
    /\ questions = <<"not called">>
    /\ parts' = re_split(RemoveCR(text))
    /\ questions' = split_into_questions(text)
    /\ UNCHANGED <<text, appVars>>

NextSplit == CallSplit

SpecSplit == InitSplit /\ [][NextSplit]_vars

----------------------------------------------------------------------------
(* Properties of split_into_questions (checked under SpecSplit) *)

called == questions # <<"not called">>

\* a digit directly followed by a delimiter and then a whitespace character
HasMarker(s) ==
    \E i \in 1..Len(s) - 2 :
        s[i] \in Digits /\ s[i + 1] \in Delims /\ s[i + 2] \in Whitespace

\* C3 as stated: a text that itself shows no numbering marker yields no
\* question.
C3_NoMarkerNoQuestions == (called /\ ~HasMarker(text)) => questions = <<>>

\* C3 amended: a text that shows no numbering marker once its carriage
\* returns are removed yields no question (and the call returns).
C3_NoMarkerAfterCRNoQuestions ==
    (called /\ ~HasMarker(RemoveCR(text))) => questions = <<>>

C3_Witness ==
    /\ called
    /\ ~HasMarker(RemoveCR(text))
    /\ Len(text) > ShortLimit
    /\ \E i \in 1..Len(text) : text[i] \in Digits
    /\ questions = <<>>

\* C4: every returned question is trimmed and longer than 15 characters.
C4_QuestionsTrimmedAndLong ==
    called =>
        \A k \in 1..Len(questions) :
            /\ Len(questions[k]) > ShortLimit
            /\ questions[k][1] \notin Whitespace
            /\ questions[k][Len(questions[k])] \notin Whitespace

\* a piece of 16 characters that trims to exactly 15 is dropped while a
\* longer piece of the same text is returned
C4_Witness ==
    /\ called
    /\ questions # <<>>
    /\ \E k \in 2..Len(parts) :
          Len(parts[k]) > ShortLimit /\ Len(strip(parts[k])) = ShortLimit

\* the digits of the match <<m[1], m[2]>> are the first non-blank text of
\* their line
AtLineStart(s, m) ==
    LET n == IF s[m[1]] = "\n" THEN m[1] + 1 ELSE m[1]
        w == SkipWhile(s, n, Whitespace)
        b == SkipBack(s, w - 1, Whitespace \ {"\n"})
    IN  b = 0 \/ s[b] = "\n"

\* C8: the text is cut only at numbering markers that begin a line.
C8_SplitsOnlyAtLineStart ==
    called =>
        LET s  == RemoveCR(text)
            ms == Matches(s, 1)
        IN  \A k \in 1..Len(ms) : AtLineStart(s, ms[k])

====
